---- MODULE Spec2Model ----
(***************************************************************************)
(* A model of SRA_download_lib.py: identifier resolution (file, list, GEO  *)
(* dataset), the joblib fan-out of download_fastq_parallel, and the        *)
(* kingfisher invocation built by download_fastq.                          *)
(*                                                                         *)
(* Strings that the code inspects (file contents, sample identifiers) are  *)
(* sequences of characters; Python's None is the empty tuple <<>> and a    *)
(* given value v is the one-element tuple <<v>>.                           *)
(***************************************************************************)
EXTENDS Integers, Sequences, FiniteSets, TLC

\* ------------------------------------------------------------ bounds
\* Longest input file, in characters.
MaxFileLen == 4
\* Largest batch (lines of the file, keys of the dataset, entries of the list).
MaxBatch == 2
\* Largest explicitly configured worker count.
MaxProcesses == 2

\* ------------------------------------------------------------ constants
\* download_fastq_parallel(processes: int = 10), download_GEO_dataset(processes: int = 10)
DefaultProcesses == 10
\* download_methods: str = "ena-ascp ena-ftp aws-http prefetch"
DefaultMethods == "ena-ascp ena-ftp aws-http prefetch"

None == <<>>
Some(v) == <<v>>

NL == "\n"
SP == " "
\* The characters of an input file: one identifier character, a blank, a newline.
Chars == {"S", SP, NL}
\* str.strip() with no argument removes whitespace.
IsSpace(c) == c \in {SP, NL}

\* ------------------------------------------------------------ pure helpers
\* file.readlines(): the text cut after every newline, the newline kept.
RECURSIVE ReadLines(_)
ReadLines(text) ==
    IF text = <<>> THEN <<>>
    ELSE LET nls == {i \in 1..Len(text) : text[i] = NL}
             k == IF nls = {} THEN Len(text)
                  ELSE CHOOSE i \in nls : \A j \in nls : i <= j
         IN <<SubSeq(text, 1, k)>> \o ReadLines(SubSeq(text, k + 1, Len(text)))

RECURSIVE LStrip(_)
LStrip(s) ==
    IF s # <<>> /\ IsSpace(s[1]) THEN LStrip(Tail(s)) ELSE s

RECURSIVE RStrip(_)
RStrip(s) ==
    IF s # <<>> /\ IsSpace(s[Len(s)]) THEN RStrip(SubSeq(s, 1, Len(s) - 1)) ELSE s

\* A plausible slip: only the line ending is removed.
StripTrailingOnly(s) == RStrip(s)

\* line.strip()
Strip(s) == LStrip(RStrip(s))

\* [line.strip() for line in file.readlines()]
StripLines(text) ==
    LET lines == ReadLines(text)
    IN [i \in 1..Len(lines) |-> Strip(lines[i])]

\* " ".join(sample_ids)
RECURSIVE Join(_)
Join(ids) ==
    IF ids = <<>> THEN <<>>
    ELSE IF Len(ids) = 1 THEN ids[1]
    ELSE ids[1] \o <<SP>> \o Join(Tail(ids))

\* The number of lines of a text: its newlines, and an unterminated last line.
NumLines(text) ==
    Cardinality({p \in 1..Len(text) : text[p] = NL})
        + (IF text # <<>> /\ text[Len(text)] # NL THEN 1 ELSE 0)

\* The position of the k-th newline of a text, 0 for k = 0, the text's end past the last.
NewlineAt(text, k) ==
    IF k = 0 THEN 0
    ELSE LET at == {p \in 1..Len(text) :
                      /\ text[p] = NL
                      /\ Cardinality({q \in 1..p : text[q] = NL}) = k}
         IN IF at = {} THEN Len(text) ELSE CHOOSE p \in at : TRUE

\* The i-th line of a text, its newline included.
LineOf(text, i) == SubSeq(text, NewlineAt(text, i - 1) + 1, NewlineAt(text, i))

\* ------------------------------------------------------------ inputs
Texts == UNION {[1..k -> Chars] : k \in 0..MaxFileLen}
FileTexts == {t \in Texts : Len(ReadLines(t)) <= MaxBatch}

\* Identifiers a caller passes in memory; "L" never occurs in a file.
ListIds == {<<"L">>, <<"S">>}
SampleLists == UNION {[1..k -> ListIds] : k \in 0..MaxBatch}

\* The path handed as file, and the file system behind it.
Path == "ids.txt"
Missing == <<>>

OutDirs == {"", "out"}
MethodLists == {DefaultMethods, "prefetch"}
ProcessArgs == {None} \cup {Some(p) : p \in 1..MaxProcesses}

\* Sample keys of a dataset handle, in the mapping's order.
GsmKeys == <<"GSM1", "GSM2", "GSM3", "GSM4">>
\* Run accessions the translation service may answer with.
Srrs == {<<"S">>, <<"S", "S">>}

VARIABLES
    entry,              \* the function the caller invokes
    out_dir,            \* argument out_dir
    download_methods,   \* argument download_methods
    processes_arg,      \* argument processes: None when left to its default
    use_max_processes,  \* argument use_max_processes
    file,               \* argument file: None or Some(path)
    fs,                 \* what path holds: Missing or Some(text)
    sample_arg,         \* argument sample_list / sample_ids: None or Some(list)
    pc,                 \* where the call is
    err,                \* the uncaught exception, "" when none
    gsms,               \* gse.gsms.keys() once the lookup returned
    srr_calls,          \* the keys gsm_to_srr was called with, in order
    sample_list,        \* the resolved batch: None or Some(list)
    sample_ids,         \* download_GEO_dataset's list of translated identifiers
    n_jobs,             \* Parallel(n_jobs=...): None before the pool exists
    jobs,               \* one entry per delayed(download_fastq)(...) call
    command             \* the kingfisher command of a direct download_fastq

inputs == <<entry, out_dir, download_methods, processes_arg, use_max_processes,
            file, fs, sample_arg>>
vars == <<entry, out_dir, download_methods, processes_arg, use_max_processes,
          file, fs, sample_arg, pc, err, gsms, srr_calls, sample_list, sample_ids,
          n_jobs, jobs, command>>

\* The value of a parameter with a default.
Param(default, arg) == IF arg = None THEN default ELSE arg[1]

\* ------------------------------------------------------------ Init
InitState ==
    /\ pc = "start"
    /\ err = ""
    /\ gsms = None
    /\ srr_calls = <<>>
    /\ sample_list = None
    /\ sample_ids = <<>>
    /\ n_jobs = None
    /\ jobs = <<>>
    /\ command = None

\* A file argument, and what the path holds.
FileInputs ==
    {<<None, Missing>>, <<Some(Path), Missing>>}
        \cup {<<Some(Path), Some(t)>> : t \in FileTexts}

\* The list given beside a file: none, or one holding an identifier no file has.
ListsBesideFile == {None, Some(<<<<"S">>, <<"L">>>>)}

Init ==
    /\ entry \in {"download_fastq_parallel", "download_GEO_dataset", "download_fastq"}
    /\ out_dir \in OutDirs
    /\ download_methods \in MethodLists
    /\ processes_arg \in ProcessArgs
    /\ use_max_processes \in BOOLEAN
    /\ \E f \in FileInputs : file = f[1] /\ fs = f[2]
    /\ sample_arg \in {None} \cup {Some(l) : l \in SampleLists}
    /\ file # None => sample_arg \in ListsBesideFile
    /\ entry = "download_GEO_dataset" => file = None /\ sample_arg = None
    /\ entry = "download_fastq" => processes_arg = None /\ ~use_max_processes
    /\ InitState

\* ------------------------------------------------------------ download_fastq
\* out_dir_parser: the flag is passed only for a truthy out_dir.
OutDirParser(o) == IF o # "" THEN Some(o) ELSE None

\* The command line download_fastq hands to the shell. ids is a list of
\* identifiers when isList, one identifier otherwise.
KingfisherCommand(o, ids, isList, m) ==
    [run_identifiers |-> IF isList THEN Join(ids) ELSE ids,
     output_directory |-> OutDirParser(o),
     methods |-> m]

\* Exit statuses of the external tool.
ExitCodes == {0, 1}

\* A plausible slip: subprocess.check_call, which raises on a non-zero status.
RaisesOnExitChecked(code) == code # 0

\* subprocess.call returns the status; download_fastq drops it.
RaisesOnExit(code) == FALSE

\* ------------------------------------------------------------ dispatch
\* A plausible slip: the worker count clamped to the batch size.
RequestedWorkersClamped(usemax, procs, n) ==
    IF usemax \/ procs > n THEN n ELSE procs

\* if use_max_processes: processes = len(sample_list)
RequestedWorkers(usemax, procs, n) == IF usemax THEN n ELSE procs

\* A plausible slip: the list wins over the file.
ResolveListFirst(f, lst) ==
    IF lst # None THEN lst
    ELSE IF f # None THEN Some(StripLines(fs[1])) ELSE lst

\* if file: sample_list = [line.strip() for line in file.readlines()]
Resolve(f, lst) == IF f # None THEN Some(StripLines(fs[1])) ELSE lst

PendingJob == [status |-> "pending", calls |-> 0, args |-> None, cmd |-> None,
               exit |-> None]

\* The body of download_fastq_parallel up to the moment the pool runs.
EnterParallel(lst, f, procs, usemax) ==
    LET resolved == Resolve(f, lst)
        n == Len(resolved[1])
        requested == RequestedWorkers(usemax, procs, n)
    IN  IF f # None /\ fs = Missing
        THEN /\ pc' = "raised"
             /\ err' = "FileNotFoundError"
             /\ UNCHANGED <<sample_list, n_jobs, jobs>>
        ELSE IF resolved = None
        THEN /\ pc' = "raised"
             /\ err' = "TypeError"
             /\ sample_list' = None
             /\ n_jobs' = IF usemax THEN None ELSE Some(procs)
             /\ jobs' = <<>>
        ELSE IF requested = 0
        THEN /\ pc' = "raised"
             /\ err' = "ValueError"
             /\ sample_list' = resolved
             /\ n_jobs' = Some(requested)
             /\ jobs' = <<>>
        ELSE /\ pc' = "dispatching"
             /\ UNCHANGED err
             /\ sample_list' = resolved
             /\ n_jobs' = Some(requested)
             /\ jobs' = [i \in 1..n |-> PendingJob]

CallDownloadFastqParallel ==
    /\ pc = "start"
    /\ entry = "download_fastq_parallel"
    /\ EnterParallel(sample_arg, file, Param(DefaultProcesses, processes_arg),
                     use_max_processes)
    /\ UNCHANGED <<inputs, gsms, srr_calls, sample_ids, command>>

Running == Cardinality({i \in DOMAIN jobs : jobs[i].status = "running"})

\* A plausible slip: every job gets a process of its own.
CanStartUnbounded == TRUE

\* Parallel(n_jobs=processes): at most n_jobs workers run at once.
CanStart == Running < n_jobs[1]

\* A plausible slip: the default method list instead of the caller's.
JobArgsDefaultMethods(i) ==
    [out_dir |-> out_dir, sample_id |-> sample_list[1][i],
     download_methods |-> DefaultMethods]

\* delayed(download_fastq)(out_dir, sample_id, download_methods)
JobArgs(i) ==
    [out_dir |-> out_dir, sample_id |-> sample_list[1][i],
     download_methods |-> download_methods]

StartJob(i) ==
    /\ pc = "dispatching"
    /\ jobs[i].status = "pending"
    /\ CanStart
    /\ LET a == JobArgs(i)
       IN jobs' = [jobs EXCEPT ![i] =
                     [status |-> "running", calls |-> @.calls + 1, args |-> Some(a),
                      cmd |-> Some(KingfisherCommand(a.out_dir, a.sample_id, FALSE,
                                                     a.download_methods)),
                      exit |-> None]]
    /\ UNCHANGED <<inputs, pc, err, gsms, srr_calls, sample_list, sample_ids,
                   n_jobs, command>>

FinishJob(i, code) ==
    /\ pc = "dispatching"
    /\ jobs[i].status = "running"
    /\ jobs' = [jobs EXCEPT ![i].status = "done", ![i].exit = Some(code)]
    /\ IF RaisesOnExit(code)
       THEN pc' = "raised" /\ err' = "CalledProcessError"
       ELSE UNCHANGED <<pc, err>>
    /\ UNCHANGED <<inputs, gsms, srr_calls, sample_list, sample_ids, n_jobs,
                   command>>

\* A plausible slip: the call returns once every job was handed to a worker.
AllReturnedDispatched == \A i \in DOMAIN jobs : jobs[i].status # "pending"

\* Parallel(...)(...) returns when every job returned.
AllReturned == \A i \in DOMAIN jobs : jobs[i].status = "done"

Return ==
    /\ pc = "dispatching"
    /\ AllReturned
    /\ pc' = "returned"
    /\ UNCHANGED <<inputs, err, gsms, srr_calls, sample_list, sample_ids, n_jobs,
                   jobs, command>>

\* ------------------------------------------------------------ download_GEO_dataset
\* gse = get_GEO_info(GEO_id)
GetGEOInfo(k) ==
    /\ pc = "start"
    /\ entry = "download_GEO_dataset"
    /\ gsms' = Some(SubSeq(GsmKeys, 1, k))
    /\ pc' = "translating"
    /\ UNCHANGED <<inputs, err, srr_calls, sample_list, sample_ids, n_jobs, jobs,
                   command>>

GetGEOInfoFails ==
    /\ pc = "start"
    /\ entry = "download_GEO_dataset"
    /\ pc' = "raised"
    /\ err' = "LookupError"
    /\ UNCHANGED <<inputs, gsms, srr_calls, sample_list, sample_ids, n_jobs, jobs,
                   command>>

\* A plausible slip: the comprehension stops after the first sample.
TranslationDoneEarly ==
    Len(srr_calls) = Len(gsms[1]) \/ Len(srr_calls) >= 1

\* The comprehension over gse.gsms.keys() is exhausted.
TranslationDone == Len(srr_calls) = Len(gsms[1])

\* gsm_to_srr(sample_id) for the next key
GsmToSrr(srr) ==
    /\ pc = "translating"
    /\ ~TranslationDone
    /\ srr_calls' = Append(srr_calls, gsms[1][Len(srr_calls) + 1])
    /\ sample_ids' = Append(sample_ids, srr)
    /\ UNCHANGED <<inputs, pc, err, gsms, sample_list, n_jobs, jobs, command>>

\* A plausible slip: a failed translation is caught and the sample skipped.
GsmToSrrFailsSkipped ==
    /\ pc = "translating"
    /\ ~TranslationDone
    /\ srr_calls' = Append(srr_calls, gsms[1][Len(srr_calls) + 1])
    /\ err' = "TranslationError"
    /\ UNCHANGED <<inputs, pc, gsms, sample_list, sample_ids, n_jobs, jobs,
                   command>>

\* gsm_to_srr raises (no rows, no column, service error): nothing catches it.
GsmToSrrFails ==
    /\ pc = "translating"
    /\ ~TranslationDone
    /\ srr_calls' = Append(srr_calls, gsms[1][Len(srr_calls) + 1])
    /\ pc' = "raised"
    /\ err' = "TranslationError"
    /\ UNCHANGED <<inputs, gsms, sample_list, sample_ids, n_jobs, jobs, command>>

\* if use_max_processes: processes = len(sample_ids)
GEOProcesses(usemax, procs, n) == IF usemax THEN n ELSE procs

\* download_fastq_parallel(sample_list=sample_ids, ..., processes=processes)
DownloadGEODispatch ==
    /\ pc = "translating"
    /\ TranslationDone
    /\ EnterParallel(Some(sample_ids), None,
                     GEOProcesses(use_max_processes,
                                  Param(DefaultProcesses, processes_arg),
                                  Len(sample_ids)),
                     FALSE)
    /\ UNCHANGED <<inputs, gsms, srr_calls, sample_ids, command>>

\* ------------------------------------------------------------ download_fastq, called directly
CallDownloadFastq(code) ==
    /\ pc = "start"
    /\ entry = "download_fastq"
    /\ IF file # None /\ fs = Missing
       THEN /\ pc' = "raised"
            /\ err' = "FileNotFoundError"
            /\ UNCHANGED <<sample_list, command>>
       ELSE LET ids == Resolve(file, sample_arg)
            IN /\ sample_list' = ids
               /\ command' =
                    IF ids = None
                    THEN Some(KingfisherCommand(out_dir, <<"N", "o", "n", "e">>,
                                                FALSE, download_methods))
                    ELSE Some(KingfisherCommand(out_dir, ids[1], TRUE,
                                                download_methods))
               /\ IF RaisesOnExit(code)
                  THEN pc' = "raised" /\ err' = "CalledProcessError"
                  ELSE pc' = "returned" /\ err' = ""
    /\ UNCHANGED <<inputs, gsms, srr_calls, sample_ids, n_jobs, jobs>>

\* ------------------------------------------------------------ specification
Next ==
    \/ CallDownloadFastqParallel
    \/ \E i \in DOMAIN jobs : StartJob(i)
    \/ \E i \in DOMAIN jobs : \E code \in ExitCodes : FinishJob(i, code)
    \/ Return
    \/ \E k \in 0..MaxBatch : GetGEOInfo(k)
    \/ GetGEOInfoFails
    \/ \E srr \in Srrs : GsmToSrr(srr)
    \/ GsmToSrrFails
    \/ DownloadGEODispatch
    \/ \E code \in ExitCodes : CallDownloadFastq(code)

Spec == Init /\ [][Next]_vars

\* The inputs that decide how a dispatch is scheduled: the entry point, the
\* worker count and the size of the batch. What the identifiers are does not.
InitScheduling ==
    /\ Init
    /\ out_dir = "out"
    /\ download_methods = DefaultMethods
    /\ file # None => sample_arg = None
    /\ fs # Missing =>
         \A i \in 1..NumLines(fs[1]) : LineOf(fs[1], i) = <<"S", NL>>
    /\ sample_arg # None => \A l \in DOMAIN sample_arg[1] : sample_arg[1][l] = <<"L">>

\* Workers are operating-system processes, each job's external tool terminates,
\* and the caller's own steps are sequential code: a step that can be taken is
\* taken.
FairSpec == InitScheduling /\ [][Next]_vars /\ WF_vars(Next)

\* ------------------------------------------------------------ what the claims speak of
\* s is line without its leading and trailing whitespace, and nothing else is gone.
IsTrimOf(s, line) ==
    \E a \in 0..Len(line) : \E b \in a..Len(line) :
        /\ s = SubSeq(line, a + 1, b)
        /\ \A p \in 1..a : IsSpace(line[p])
        /\ \A p \in (b + 1)..Len(line) : IsSpace(line[p])
        /\ s # <<>> => ~IsSpace(s[1]) /\ ~IsSpace(s[Len(s)])

\* s is line without its trailing whitespace, and nothing else is gone.
IsRightTrimOf(s, line) ==
    \E b \in 0..Len(line) :
        /\ s = SubSeq(line, 1, b)
        /\ \A p \in (b + 1)..Len(line) : IsSpace(line[p])
        /\ s # <<>> => ~IsSpace(s[Len(s)])

\* Only a caller's list holds the character "L".
FromListOnly(s) == \E p \in 1..Len(s) : s[p] = "L"

Failed(j) == j.exit # None /\ j.exit[1] # 0
AnyFailed == \E i \in DOMAIN jobs : Failed(jobs[i])
Dispatches == entry \in {"download_fastq_parallel", "download_GEO_dataset"}
FileMode == entry = "download_fastq_parallel" /\ file # None /\ fs # Missing

\* ------------------------------------------------------------ claims

\* C1: download_fastq_parallel invokes download_fastq exactly once per position
\* of the resolved list (duplicates included), each invocation with the out_dir
\* and download_methods given to the dispatch call and with that position's
\* identifier: no job is ever invoked twice, and when dispatch returns there is
\* one job per position and each was invoked once.
C1_OncePerIdentifier ==
    /\ \A i \in DOMAIN jobs :
         /\ jobs[i].calls <= 1
         /\ jobs[i].calls = 1 =>
              jobs[i].args = Some([out_dir |-> out_dir,
                                   sample_id |-> sample_list[1][i],
                                   download_methods |-> download_methods])
    /\ (Dispatches /\ pc = "returned") =>
         /\ Len(jobs) = Len(sample_list[1])
         /\ \A i \in DOMAIN jobs : jobs[i].calls = 1

C1_Witness ==
    /\ pc = "returned"
    /\ Len(jobs) = 2
    /\ sample_list[1][1] = sample_list[1][2]
    /\ \A i \in DOMAIN jobs : jobs[i].calls = 1
    /\ download_methods # DefaultMethods

\* C2: dispatch does not return before every dispatched invocation returned (when
\* it has returned, no job is pending or running), and under fair scheduling a
\* dispatch whose pool is running eventually returns.
C2_JoinBeforeReturn ==
    /\ []((Dispatches /\ pc = "returned") =>
            \A i \in DOMAIN jobs : jobs[i].status = "done")
    /\ (pc = "dispatching" ~> pc = "returned")

C2_Witness ==
    /\ pc = "returned"
    /\ Len(jobs) = 2
    /\ \A i \in DOMAIN jobs : jobs[i].status = "done"

\* C3: a job whose tool exits non-zero stops nothing: the failure never becomes
\* an exception of the dispatch, and from any dispatch with a failed job every
\* job is still started and completes and dispatch returns.
C3_FailureDoesNotStopSiblings ==
    /\ [](AnyFailed => pc \in {"dispatching", "returned"} /\ err = "")
    /\ ((pc = "dispatching" /\ AnyFailed) ~>
          (/\ pc = "returned"
           /\ \A i \in DOMAIN jobs : jobs[i].status = "done" /\ jobs[i].calls = 1))

C3_Witness ==
    /\ pc = "returned"
    /\ \E i, j \in DOMAIN jobs :
         /\ Failed(jobs[i])
         /\ jobs[j].status = "done"
         /\ jobs[j].exit = Some(0)

C5_TrailingWhitespaceOnly ==
    (FileMode /\ fs[1] # <<>> /\ pc # "start") =>
        /\ sample_list # None
        /\ Len(sample_list[1]) = NumLines(fs[1])
        /\ \A i \in 1..Len(sample_list[1]) :
             IsRightTrimOf(sample_list[1][i], LineOf(fs[1], i))

\* C5 as amended: for a non-empty file of N lines, download_fastq_parallel
\* resolves N identifiers in file order, the i-th being the i-th line with its
\* leading and trailing whitespace removed and nothing else.
C5_LeadingAndTrailingWhitespace ==
    (FileMode /\ fs[1] # <<>> /\ pc # "start") =>
        /\ sample_list # None
        /\ Len(sample_list[1]) = NumLines(fs[1])
        /\ \A i \in 1..Len(sample_list[1]) :
             IsTrimOf(sample_list[1][i], LineOf(fs[1], i))

C5_Witness ==
    /\ FileMode
    /\ pc = "dispatching"
    /\ fs[1] = <<SP, "S", NL, "S">>
    /\ sample_list = Some(<<<<"S">>, <<"S">>>>)

\* C6: with a file and a list both given, to download_fastq_parallel or to
\* download_fastq, the batch is the file's: it has one identifier per line of the
\* file, and no identifier that only the list holds is dispatched or put on a
\* command line.
C6_FileOverridesList ==
    (file # None /\ sample_arg # None) =>
        /\ sample_list # None => Len(sample_list[1]) = NumLines(fs[1])
        /\ \A i \in DOMAIN jobs :
             jobs[i].args # None => ~FromListOnly(jobs[i].args[1].sample_id)
        /\ command # None => ~FromListOnly(command[1].run_identifiers)

C6_Witness ==
    /\ file # None
    /\ sample_arg # None
    /\ \E l \in DOMAIN sample_arg[1] : FromListOnly(sample_arg[1][l])
    /\ entry = "download_fastq_parallel"
    /\ pc = "returned"
    /\ Len(jobs) = 2

\* C7: download_GEO_dataset calls gsm_to_srr exactly once per sample key of the
\* dataset handle (never twice, and once each by the time the batch is handed to
\* download_fastq_parallel), and the number of jobs dispatched is the number of
\* sample keys.
C7_TranslateOncePerKey ==
    (entry = "download_GEO_dataset" /\ gsms # None) =>
        LET calls(k) == Cardinality({c \in DOMAIN srr_calls :
                                       srr_calls[c] = gsms[1][k]})
        IN /\ \A k \in DOMAIN gsms[1] : calls(k) <= 1
           /\ (pc \in {"dispatching", "returned"} \/ err = "ValueError") =>
                /\ \A k \in DOMAIN gsms[1] : calls(k) = 1
                /\ Len(srr_calls) = Len(gsms[1])
                /\ Len(jobs) = Len(gsms[1])
           /\ pc = "returned" => \A i \in DOMAIN jobs : jobs[i].calls = 1

C7_Witness ==
    /\ entry = "download_GEO_dataset"
    /\ pc = "returned"
    /\ Len(gsms[1]) = 2
    /\ Len(jobs) = 2
    /\ sample_ids[1] = sample_ids[2]

\* C8: a resolution failure (unreadable file, failed lookup, failed translation
\* of any one sample) is an uncaught error that ends the call before dispatch:
\* no download_fastq invocation was started, no pool was asked for, and none is
\* started before resolution ends.
C8_ResolutionFailureAborts ==
    /\ err \in {"FileNotFoundError", "LookupError", "TranslationError"} =>
         /\ pc = "raised"
         /\ jobs = <<>>
         /\ n_jobs = None
         /\ command = None
    /\ pc \in {"start", "translating"} =>
         jobs = <<>> /\ n_jobs = None /\ command = None

C8_Witness ==
    /\ err = "TranslationError"
    /\ pc = "raised"
    /\ Len(sample_ids) >= 1
    /\ jobs = <<>>

\* C9: every identifier that file-based resolution in download_fastq_parallel
\* hands to a job is a non-empty string.
C9_NonEmptyIdentifiers ==
    FileMode =>
        \A i \in DOMAIN jobs :
            jobs[i].args # None => jobs[i].args[1].sample_id # <<>>

\* C10: the pool is bounded: during a dispatch the number of download_fastq
\* invocations running at once never exceeds the worker count asked of the pool,
\* nor the batch size.
C10_PoolBounded ==
    pc = "dispatching" =>
        LET running == Cardinality({i \in DOMAIN jobs : jobs[i].status = "running"})
        IN /\ running <= n_jobs[1]
           /\ running <= Len(sample_list[1])

C10_Witness ==
    /\ pc = "dispatching"
    /\ n_jobs = Some(1)
    /\ \E i, j \in DOMAIN jobs :
         jobs[i].status = "running" /\ jobs[j].status = "pending"

====
